---------------------------- MODULE Spec2Model ----------------------------
(***************************************************************************)
(* A model of the sos2 kernel core: boot (kernel_main), task creation      *)
(* (TaskList::alloc_kernel_task / alloc_task, task::init), the timer       *)
(* interrupt (timer_handler -> sched -> switch_to) and the syscall path    *)
(* (syscall_entry, sys_write, _syscall_return).                            *)
(*                                                                         *)
(* One CPU.  The only source of interleaving is IRQ0, which is delivered   *)
(* only while RFLAGS.IF = 1; code that runs with IF = 0 is one action.     *)
(***************************************************************************)
EXTENDS Integers, Sequences, FiniteSets, TLC

(***************************************************************************)
(* Program constants                                                       *)
(***************************************************************************)
\* pub const MAX_TASK: isize = 64
MAX_TASK == 64
\* vec![0u8; 8192]: size of a kernel stack
KSTACK_SIZE == 8192
\* size_of::<TLSSegment>(): two usize fields, repr(C, packed)
TLS_SIZE == 16
\* size_of::<idt::ExceptionStackFrame>(): rip, cs, rflags, old_rsp, old_ss
FRAME_SIZE == 40
\* size_of::<usize>()
WORD == 8
\* task.ctx.rflags = 0x0202 (IF, bit 9, and the reserved bit 1)
RFLAGS_INIT == 514
\* the syscall number test_userlevel passes in rax
SYS_WRITE_NR == 16
\* for _ in 1..10 { hlt } in test_thread's busy_wait
HLT_THREAD1 == 9
\* for _ in 1..50 { hlt } in test_thread2's busy_wait
HLT_THREAD2 == 49
\* tasks.get_task(4) in task::init
INIT_PID == 4

(***************************************************************************)
(* Bounds of the model                                                     *)
(***************************************************************************)
\* the width of TIMER_TICKS (an AtomicUsize, fetch_add wraps) is scaled down
TickWrap == 2
\* the width of test_userlevel's a0..a5 is scaled down: they wrap after this
\* many loop iterations
IterWrap == 2
\* the number of alloc_* calls a behaviour of AllocSpec makes
MaxAllocCalls == 3
\* the window, in multiples of the number of tasks, over which the
\* round-robin count is observed
FairRounds == 2
\* the hlt instructions of a busy_wait loop the model counts: a longer loop
\* sleeps through HltBound timer interrupts
HltBound == 2

(***************************************************************************)
(* Addresses.  The allocator's answers are not part of the program; any    *)
(* injective choice stands for them.                                       *)
(***************************************************************************)
\* mem.as_ptr() + mem.len(): the top of the pid-th boxed slice
StackTop(pid) == 65536 + pid * KSTACK_SIZE

\* the task whose kernel stack holds address a (0: none of them)
StackOwner(a) ==
    IF \E p \in 1..(MAX_TASK - 1) : StackTop(p) - KSTACK_SIZE < a /\ a <= StackTop(p)
    THEN CHOOSE p \in 1..(MAX_TASK - 1) : StackTop(p) - KSTACK_SIZE < a /\ a <= StackTop(p)
    ELSE 0

\* mm.kernelPML4Table.pml4_frame.start_address()
KERNEL_PML4 == 4096
\* paging::create_address_space(..).pml4_frame.start_address()
UserPML4(pid) == 4096 * (1 + pid)
\* KERNEL_MAPPING.UserStack.end + 1
USER_STACK_TOP == 32768

\* bit 9 of an rflags value
IFBit(rflags) == (rflags \div 512) % 2

\* rflags with IF cleared (cli, an interrupt gate, SFMASK)
ClearIF(rflags) == rflags - 512 * IFBit(rflags)

\* rflags with IF set (sti)
SetIF(rflags) == ClearIF(rflags) + 512

(***************************************************************************)
(* Task records                                                            *)
(***************************************************************************)
\* Context::new()
ContextNew ==
    [rflags |-> 0, cr3 |-> 0, rbp |-> 0, rbx |-> 0, rsp |-> 0,
     r12 |-> 0, r13 |-> 0, r14 |-> 0, r15 |-> 0]

\* the SyscallContext of a task that has made no syscall
SysCtxNew ==
    [rip |-> "none", rax |-> 0, rdi |-> 0, rsi |-> 0, rdx |-> 0, r8 |-> 0,
     r9 |-> 0, r10 |-> 0, rflags |-> 0, rsp |-> 0]

\* TaskList::new()
TaskListNew == [tasks |-> <<>>, next_id |-> 1]

\* the memory of a kernel stack the model keeps: the TLS record at its top
\* and the words below it (slot -1 .. slot -6)
KStackNew ==
    [user_rsp |-> 0, kern_rsp |-> 0, slots |-> <<0, 0, 0, 0, 0, 0>>]

\* the test of the assert! both alloc functions start with
AllocAssertMut(list) == TRUE
AllocAssert(list) == list.next_id < MAX_TASK

\* the pid an alloc_* call takes
AllocPid(list) == list.next_id

\* the Task alloc_kernel_task builds
KernelTaskMut(pid, name) ==
    LET tlsbase == StackTop(pid) - TLS_SIZE
    IN  [pid |-> pid, ppid |-> 0, name |-> name, state |-> "Created",
         kern_stack |-> StackTop(pid),
         cr3 |-> KERNEL_PML4,
         sysctx |-> SysCtxNew,
         ctx |-> [ContextNew EXCEPT
                    !.rflags = RFLAGS_INIT,
                    !.rsp = StackTop(pid) - TLS_SIZE - FRAME_SIZE,
                    !.cr3 = KERNEL_PML4]]
KernelTask(pid, name) ==
    LET tlsbase == StackTop(pid) - TLS_SIZE
    IN  [pid |-> pid, ppid |-> 0, name |-> name, state |-> "Created",
         kern_stack |-> StackTop(pid),
         cr3 |-> KERNEL_PML4,
         sysctx |-> SysCtxNew,
         ctx |-> [ContextNew EXCEPT
                    !.rflags = RFLAGS_INIT,
                    !.rsp = StackTop(pid) - TLS_SIZE - FRAME_SIZE - WORD,
                    !.cr3 = KERNEL_PML4]]

\* what alloc_kernel_task writes to the new kernel stack
KernelStack(pid, rip) ==
    LET tlsbase == StackTop(pid) - TLS_SIZE
    IN  [user_rsp |-> 0, kern_rsp |-> tlsbase,
         \* slots[i] is *fp.offset(-i)
         slots |-> <<"KERN_DS", tlsbase, RFLAGS_INIT, "KERN_CS", rip, "start_task">>]

\* the Task alloc_task builds
UserTask(pid, name, parent) ==
    [pid |-> pid, ppid |-> parent, name |-> name, state |-> "Created",
     kern_stack |-> StackTop(pid),
     cr3 |-> UserPML4(pid),
     sysctx |-> SysCtxNew,
     ctx |-> [ContextNew EXCEPT
                !.rflags = RFLAGS_INIT,
                !.rsp = StackTop(pid) - TLS_SIZE,
                !.cr3 = UserPML4(pid)]]

\* what alloc_task writes to the new kernel stack
UserStack(pid) ==
    [KStackNew EXCEPT !.user_rsp = USER_STACK_TOP,
                      !.kern_rsp = StackTop(pid) - TLS_SIZE]

\* self.entry(pid).or_insert(task): an occupied entry is kept
OrInsert(tasks, pid, task) ==
    IF pid \in DOMAIN tasks THEN tasks
    ELSE [p \in (DOMAIN tasks) \cup {pid} |-> IF p = pid THEN task ELSE tasks[p]]

\* TaskList::alloc_kernel_task, on a list that passes the assert
alloc_kernel_taskMut(list, name, rip) ==
    LET pid == AllocPid(list)
    IN  [tasks |-> OrInsert(list.tasks, pid, KernelTask(pid, name)),
         next_id |-> list.next_id + 2]
alloc_kernel_task(list, name, rip) ==
    LET pid == AllocPid(list)
    IN  [tasks |-> OrInsert(list.tasks, pid, KernelTask(pid, name)),
         next_id |-> list.next_id + 1]

\* TaskList::alloc_task, on a list that passes the assert
alloc_task(list, name, parent, rip) ==
    LET pid == AllocPid(list)
    IN  [tasks |-> OrInsert(list.tasks, pid, UserTask(pid, name, parent)),
         next_id |-> list.next_id + 1]

\* the entry points and names task::init gives its kernel threads
InitRips == <<"idle", "test_thread", "test_thread2">>
InitNames == <<"idle", "kthread1", "kthread2">>


(***************************************************************************)
(* State                                                                   *)
(***************************************************************************)
VARIABLES
    boot_pc,        \* where the boot thread is in kernel_main / task::init
    oflags,         \* task::init's local oflags
    init_i,         \* the kernel threads task::init has allocated so far
    tl,             \* TASKS: the TaskList (tasks, next_id)
    kstack,         \* the memory at the top of each task's kernel stack
    list_lock,      \* the RwLock around the TaskList
    task_lock,      \* the RwLock around each Task
    console_locked, \* the console spinlock
    CURRENT_ID,     \* the atomic CURRENT_ID
    TIMER_TICKS,    \* the atomic TIMER_TICKS
    cpu,            \* the register file
    TSS_rsp0,       \* TSS.privilege_stack_table[0]
    pic_on,         \* the IDT is loaded and the PIC delivers IRQ0
    pic_isr,        \* IRQ0 is in service: the PIC holds IRQ0 back until EOI
    running,        \* the thread whose stack and code the CPU executes (0: boot)
    pc,             \* per thread: the function and place it executes
    hlts,           \* per thread: the hlt instructions left in busy_wait
    irq,            \* per thread: it is inside timer_handler (not yet iretq)
    iframe,         \* per thread: the registers the interrupt interrupted
    saved,          \* per thread: the registers it had inside switch_to
    uiter,          \* test_userlevel: loop iterations made (a_i = i + 1 + uiter)
    sw_task,        \* sys_write: the task whose lock it holds
    sys_log,        \* the last line sys_write printed
    halt,           \* "none", or why the CPU makes no more progress
    since,          \* per task: ticks since it last became the executing task
    obs,            \* observations: the registers at the last syscall
                    \* instruction (entry), IF when syscall_entry's and
                    \* _syscall_return's statements ran (sysif), what
                    \* interrupts::init had done at its sti (at_sti), whether
                    \* that syscall was switched
                    \* away from in its handler (preempted), and the task
                    \* sched() last skipped and has not switched to since
    alloc_log,      \* the pids the alloc_* calls assigned, in call order
    count,          \* test_thread's and test_thread2's loop counters (RotateSpec)
    sched_held      \* the lock guards of sched() a switched-out thread still holds

vars == <<boot_pc, oflags, init_i, tl, kstack, list_lock, task_lock,
          console_locked, CURRENT_ID, TIMER_TICKS, cpu, TSS_rsp0, pic_on, pic_isr,
          running, pc, hlts, irq, iframe, saved, uiter, sw_task, sys_log,
          halt, since, obs, alloc_log,
                   count, sched_held>>

\* the threads of the system task::init builds, and the boot thread 0
Pids == 1..INIT_PID
Threads == 0..INIT_PID

\* an RwLock nobody holds
LockFree == [readers |-> 0, writer |-> FALSE]

\* RwLock::try_read / read: possible unless a writer holds the lock
CanReadMut(l) == ~l.writer /\ l.readers = 0
CanRead(l) == ~l.writer

\* RwLock::try_write / write: possible when nobody holds the lock
CanWrite(l) == ~l.writer /\ l.readers = 0

\* the stack kernel_main runs on (kern_stack_top)
BOOT_STACK_TOP == 65536

\* the registers at the entry of kernel_main (IF = 0)
CpuBoot ==
    [rsp |-> BOOT_STACK_TOP, rbp |-> BOOT_STACK_TOP, rbx |-> 0, r12 |-> 0,
     r13 |-> 0, r14 |-> 0, r15 |-> 0, rflags |-> 2, cr3 |-> KERNEL_PML4,
     cpl |-> 0, gs_base |-> 0,
     rax |-> 0, rdi |-> 0, rsi |-> 0, rdx |-> 0, r8 |-> 0, r9 |-> 0,
     r10 |-> 0, rcx |-> "none", r11 |-> 0]

\* the callee-saved registers, rsp and rflags: what switch_to saves
CalleeRegs(c) ==
    [rflags |-> c.rflags, rbp |-> c.rbp, rbx |-> c.rbx, rsp |-> c.rsp,
     r12 |-> c.r12, r13 |-> c.r13, r14 |-> c.r14, r15 |-> c.r15]

NoPc == [fn |-> "none", at |-> "none"]

\* the state the variables of the running system start in, whatever the
\* task list is
InitRest ==
    /\ boot_pc = "km_entry"
    /\ oflags = 0
    /\ init_i = 0
    /\ list_lock = LockFree
    /\ task_lock = [p \in Pids |-> LockFree]
    /\ console_locked = FALSE
    /\ CURRENT_ID = 0
    /\ TIMER_TICKS = 0
    /\ cpu = CpuBoot
    /\ TSS_rsp0 = 0
    /\ pic_on = FALSE
    /\ pic_isr = FALSE
    /\ running = 0
    /\ pc = [t \in Threads |-> NoPc]
    /\ hlts = [t \in Threads |-> 0]
    /\ irq = [t \in Threads |-> FALSE]
    /\ iframe = [t \in Threads |-> CpuBoot]
    /\ saved = [t \in Threads |-> CalleeRegs(CpuBoot)]
    /\ uiter = 0
    /\ sw_task = [task |-> 0, rax |-> 0, id |-> 0]
    /\ sys_log = [id |-> 0, rax |-> 0]
    /\ halt = "none"
    /\ since = [p \in Pids |-> 0]
    /\ obs = [preempted |-> FALSE, skipped |-> 0,
              entry |-> [rip |-> "none", rax |-> 0, rdi |-> 0, rsi |-> 0,
                         rdx |-> 0, r8 |-> 0, r9 |-> 0, r10 |-> 0, rsp |-> 0],
              sysif |-> [sysctx |-> 0, rsp |-> 0, ret |-> 0],
              at_sti |-> <<>>]
    /\ alloc_log = <<>>
    /\ count = [t \in Threads |-> 0]
    /\ sched_held = [t \in Threads |-> {}]

\* the state at the entry of kernel_main
Init ==
    /\ tl = TaskListNew
    /\ kstack = <<>>
    /\ InitRest


(***************************************************************************)
(* The alloc_* operations on their own: a task list of any length, and a   *)
(* few calls on it.                                                        *)
(***************************************************************************)
\* the list and the stacks n - 1 alloc_kernel_task calls on a new list leave
ListOf(n) ==
    [tasks |-> [p \in 1..(n - 1) |-> KernelTask(p, "kthread")], next_id |-> n]

StacksOf(n) == [p \in 1..(n - 1) |-> KernelStack(p, "idle")]

AllocInit ==
    /\ \E n \in 1..MAX_TASK : tl = ListOf(n) /\ kstack = StacksOf(n)
    /\ InitRest

\* a call of alloc_kernel_task(name, rip) that passes the assert
AllocKernelTask(name, rip) ==
    /\ AllocAssert(tl)
    /\ tl' = alloc_kernel_task(tl, name, rip)
    /\ kstack' = OrInsert(kstack, AllocPid(tl), KernelStack(AllocPid(tl), rip))
    /\ alloc_log' = Append(alloc_log, AllocPid(tl))

\* a call of alloc_task(name, parent, rip) that passes the assert
AllocTask(name, parent, rip) ==
    /\ AllocAssert(tl)
    /\ tl' = alloc_task(tl, name, parent, rip)
    /\ kstack' = OrInsert(kstack, AllocPid(tl), UserStack(AllocPid(tl)))
    /\ alloc_log' = Append(alloc_log, AllocPid(tl))

\* a call of either that fails the assert: panic_fmt, which never returns;
\* the assert stands before every statement that builds or inserts a task
AllocPanicMut ==
    /\ ~AllocAssert(tl)
    /\ halt' = "panic: task id exceeds maximum boundary"
    /\ tl' = [tl EXCEPT !.next_id = tl.next_id + 1]
    /\ UNCHANGED <<kstack, alloc_log>>
AllocPanic ==
    /\ ~AllocAssert(tl)
    /\ halt' = "panic: task id exceeds maximum boundary"
    /\ UNCHANGED <<tl, kstack, alloc_log,
                   count, sched_held>>

AllocRest ==
    UNCHANGED <<boot_pc, oflags, init_i, list_lock, task_lock, console_locked,
                CURRENT_ID, TIMER_TICKS, cpu, TSS_rsp0, pic_on, pic_isr, running, pc,
                hlts, irq, iframe, saved, uiter, sw_task, sys_log, since,
                obs, count, sched_held>>

CallAllocKernelTask ==
    /\ halt = "none" /\ Len(alloc_log) < MaxAllocCalls
    /\ \E rip \in {"idle", "test_thread"} : AllocKernelTask("kthread", rip)
    /\ UNCHANGED halt /\ AllocRest

CallAllocTask ==
    /\ halt = "none" /\ Len(alloc_log) < MaxAllocCalls
    /\ AllocTask("init", 1, "test_userlevel")
    /\ UNCHANGED halt /\ AllocRest

CallAllocPanic ==
    /\ halt = "none" /\ Len(alloc_log) < MaxAllocCalls
    /\ AllocPanic
    /\ AllocRest

AllocNext == CallAllocKernelTask \/ CallAllocTask \/ CallAllocPanic

AllocSpec == AllocInit /\ [][AllocNext]_vars


(***************************************************************************)
(* The boot thread: kernel_main, then task::init                           *)
(***************************************************************************)
\* the boot thread executes (it is not inside an interrupt handler)
BootRuns == halt = "none" /\ running = 0 /\ ~irq[0]

\* the place a kernel thread is at before its first dispatch
StartPc == [fn |-> "start_task", at |-> "iretq"]

\* kernel_main up to memory::init: serial, console, multiboot2::load
KernelMainSetup ==
    /\ BootRuns /\ boot_pc = "km_entry"
    /\ boot_pc' = "km_interrupts"
    /\ UNCHANGED <<oflags, init_i, tl, kstack, list_lock, task_lock,
                   console_locked, CURRENT_ID, TIMER_TICKS, cpu, TSS_rsp0,
                   pic_on, pic_isr, running, pc, hlts, irq, iframe, saved, uiter,
                   sw_task, sys_log, halt, since, obs, alloc_log,
                   count, sched_held>>

\* the statements of interrupts::init after the TSS and the GDT are built, in
\* the order it executes them
InterruptsInitStepsMut ==
    <<"gdt.load", "set_cs", "load_tss", "PIT.init", "KBD.init",
      "PIC_CHAIN.init", "enable IRQ2", "enable TIMER", "enable KBD",
      "interrupts::enable", "IDT.load">>
InterruptsInitSteps ==
    <<"gdt.load", "set_cs", "load_tss", "IDT.load", "PIT.init", "KBD.init",
      "PIC_CHAIN.init", "enable IRQ2", "enable TIMER", "enable KBD",
      "interrupts::enable">>

\* those interrupts::init has executed when it executes interrupts::enable()
BeforeSti ==
    LET sti == CHOOSE i \in 1..Len(InterruptsInitSteps) :
                   InterruptsInitSteps[i] = "interrupts::enable"
    IN  SubSeq(InterruptsInitSteps, 1, sti - 1)

\* interrupts::init, entered with interrupts off: GDT, TSS, IDT, PIT, PIC,
\* and sti
InterruptsInit ==
    /\ BootRuns /\ boot_pc = "km_interrupts"
    /\ TSS_rsp0' = 0
    /\ pic_on' = TRUE
    /\ pic_isr' = FALSE
    /\ cpu' = [cpu EXCEPT !.rflags = SetIF(cpu.rflags)]
    /\ obs' = [obs EXCEPT !.at_sti = BeforeSti]
    /\ boot_pc' = "km_framebuffer"
    /\ UNCHANGED <<oflags, init_i, tl, kstack, list_lock, task_lock,
                   console_locked, CURRENT_ID, TIMER_TICKS, running, pc, hlts,
                   irq, iframe, saved, uiter, sw_task, sys_log, halt, since,
                   alloc_log, count, sched_held>>

\* the rest of kernel_main: Framebuffer::new, then loop { cpu_relax() }
KernelMainLoop ==
    /\ BootRuns /\ boot_pc = "km_framebuffer"
    /\ boot_pc' = "km_loop"
    /\ UNCHANGED <<oflags, init_i, tl, kstack, list_lock, task_lock,
                   console_locked, CURRENT_ID, TIMER_TICKS, cpu, TSS_rsp0,
                   pic_on, pic_isr, running, pc, hlts, irq, iframe, saved, uiter,
                   sw_task, sys_log, halt, since, obs, alloc_log,
                   count, sched_held>>

\* task::init is entered.  kernel_main does not call it: it is a public
\* function the boot thread can be made to run once interrupts::init has
\* returned.  push_flags is not part of the sources: it saves the flags and
\* may or may not clear IF.  Then TaskList::get_mut().
TaskInitEnter ==
    /\ BootRuns /\ boot_pc = "km_loop"
    /\ CanWrite(list_lock)
    /\ oflags' = cpu.rflags
    /\ \E cli \in BOOLEAN :
         cpu' = [cpu EXCEPT !.rflags = IF cli THEN ClearIF(cpu.rflags) ELSE cpu.rflags]
    /\ list_lock' = [list_lock EXCEPT !.writer = TRUE]
    /\ init_i' = 0
    /\ boot_pc' = "init_alloc_kernel"
    /\ UNCHANGED <<tl, kstack, task_lock, console_locked, CURRENT_ID,
                   TIMER_TICKS, TSS_rsp0, pic_on, pic_isr, running, pc, hlts, irq,
                   iframe, saved, uiter, sw_task, sys_log, halt, since,
                   obs, alloc_log,
                   count, sched_held>>

\* one turn of the loop over rips: tasks.alloc_kernel_task(names[id], rip)
TaskInitAllocKernel ==
    /\ BootRuns /\ boot_pc = "init_alloc_kernel" /\ init_i < Len(InitRips)
    /\ IF AllocAssert(tl)
       THEN /\ AllocKernelTask(InitNames[init_i + 1], InitRips[init_i + 1])
            /\ pc' = [pc EXCEPT ![AllocPid(tl)] = StartPc]
            /\ UNCHANGED halt
       ELSE AllocPanic /\ UNCHANGED pc
    /\ init_i' = init_i + 1
    /\ UNCHANGED <<boot_pc, oflags, list_lock, task_lock, console_locked,
                   CURRENT_ID, TIMER_TICKS, cpu, TSS_rsp0, pic_on, pic_isr, running,
                   hlts, irq, iframe, saved, uiter, sw_task, sys_log, since,
                   obs, count, sched_held>>

\* cpu::pop_flags(oflags), and the end of the block drops the write guard
TaskInitPopFlags ==
    /\ BootRuns /\ boot_pc = "init_alloc_kernel" /\ init_i = Len(InitRips)
    /\ cpu' = [cpu EXCEPT !.rflags = oflags]
    /\ list_lock' = [list_lock EXCEPT !.writer = FALSE]
    /\ boot_pc' = "init_disable"
    /\ UNCHANGED <<oflags, init_i, tl, kstack, task_lock, console_locked,
                   CURRENT_ID, TIMER_TICKS, TSS_rsp0, pic_on, pic_isr, running, pc,
                   hlts, irq, iframe, saved, uiter, sw_task, sys_log, halt,
                   since, obs, alloc_log,
                   count, sched_held>>

\* the rflags after x86_64::instructions::interrupts::disable() in task::init
InitDisableMut(rflags) == rflags
InitDisable(rflags) == ClearIF(rflags)

TaskInitDisable ==
    /\ BootRuns /\ boot_pc = "init_disable"
    /\ cpu' = [cpu EXCEPT !.rflags = InitDisable(cpu.rflags)]
    /\ boot_pc' = "init_alloc_task"
    /\ UNCHANGED <<oflags, init_i, tl, kstack, list_lock, task_lock,
                   console_locked, CURRENT_ID, TIMER_TICKS, TSS_rsp0, pic_on, pic_isr,
                   running, pc, hlts, irq, iframe, saved, uiter, sw_task,
                   sys_log, halt, since, obs, alloc_log,
                   count, sched_held>>

\* { let mut tasks = TaskList::get_mut(); tasks.alloc_task("init", 1, ..) }
TaskInitAllocTask ==
    /\ BootRuns /\ boot_pc = "init_alloc_task"
    /\ CanWrite(list_lock)
    /\ IF AllocAssert(tl)
       THEN AllocTask("init", 1, "test_userlevel") /\ UNCHANGED halt
       ELSE AllocPanic
    /\ boot_pc' = "init_store"
    /\ UNCHANGED <<oflags, init_i, list_lock, task_lock, console_locked,
                   CURRENT_ID, TIMER_TICKS, cpu, TSS_rsp0, pic_on, pic_isr, running,
                   pc, hlts, irq, iframe, saved, uiter, sw_task, sys_log,
                   since, obs, count, sched_held>>

\* the pid task::init looks its user task up by
InitLookup == INIT_PID

\* tasks.get_task(4).expect("task 4"); task_lock.write();
\* CURRENT_ID.store(task.pid); init = the task
TaskInitStoreCurrent ==
    /\ BootRuns /\ boot_pc = "init_store"
    /\ CanRead(list_lock)
    /\ IF InitLookup \notin DOMAIN tl.tasks
       THEN halt' = "panic: task 4" /\ UNCHANGED CURRENT_ID
       ELSE /\ CanWrite(task_lock[InitLookup])
            /\ CURRENT_ID' = tl.tasks[InitLookup].pid
            /\ UNCHANGED halt
    /\ boot_pc' = "init_ret"
    /\ UNCHANGED <<oflags, init_i, tl, kstack, list_lock, task_lock,
                   console_locked, TIMER_TICKS, cpu, TSS_rsp0, pic_on, pic_isr,
                   running, pc, hlts, irq, iframe, saved, uiter, sw_task,
                   sys_log, since, obs, alloc_log,
                   count, sched_held>>

\* the values a thread's own code keeps in the callee-saved registers stand
\* for themselves: they are told apart by thread and by register
OwnRegs(c, t) ==
    [c EXCEPT !.rbx = 10 * t + 1, !.r12 = 10 * t + 2, !.r13 = 10 * t + 3,
              !.r14 = 10 * t + 4, !.r15 = 10 * t + 5]

\* ret_to_userspace(init): TSS.privilege_stack_table[0], IA32_GS_BASE, CR3,
\* swapgs and sysret to KERNEL_MAPPING.UserCode.start
ret_to_userspace(init, c) ==
    [c EXCEPT !.rsp = USER_STACK_TOP, !.rbp = USER_STACK_TOP,
              !.rbx = USER_STACK_TOP,
              !.rflags = init.ctx.rflags, !.r11 = init.ctx.rflags,
              !.rcx = "entry",
              !.cr3 = init.cr3,
              !.gs_base = IF kstack[init.pid].kern_rsp # 0
                          THEN kstack[init.pid].kern_rsp ELSE c.gs_base,
              !.cpl = 3]

\* the value ret_to_userspace stores in TSS.privilege_stack_table[0]
RetTssRsp0(init) == init.ctx.rsp

TaskInitRetToUserspace ==
    /\ BootRuns /\ boot_pc = "init_ret"
    /\ LET init == tl.tasks[InitLookup]
       IN  /\ TSS_rsp0' = RetTssRsp0(init)
           /\ cpu' = ret_to_userspace(init, cpu)
           /\ running' = init.pid
           /\ pc' = [pc EXCEPT ![init.pid] = [fn |-> "test_userlevel", at |-> "entry"]]
    /\ boot_pc' = "in_userspace"
    /\ since' = [p \in Pids |-> 0]
    /\ UNCHANGED <<oflags, init_i, tl, kstack, list_lock, task_lock,
                   console_locked, CURRENT_ID, TIMER_TICKS, pic_on, pic_isr, hlts, irq,
                   iframe, saved, uiter, sw_task, sys_log, halt,
                   obs, alloc_log,
                   count, sched_held>>


(***************************************************************************)
(* The timer interrupt: timer_handler, sched, switch_to                    *)
(***************************************************************************)
\* the bytes between the stack pointer an interrupt finds and the stack
\* pointer inside switch_to: the hardware frame and the frames of the
\* handler stub, timer_handler and sched
HandlerDepth == FRAME_SIZE + 12 * WORD

\* the frame pointer sched runs with, above the stack pointer in switch_to
SchedFrame == 6 * WORD

\* the stack an interrupt is taken on: the TSS's ring 0 stack when it
\* interrupts ring 3, the current stack otherwise
InterruptBase == IF cpu.cpl = 3 THEN TSS_rsp0 ELSE cpu.rsp

\* RFLAGS after the CPU has entered a handler through its IDT entry: the
\* entries are interrupt gates, which clear IF
GateFlags(rflags) == ClearIF(rflags)

\* RFLAGS when timer_handler calls sched(), from those it was entered with:
\* none of its statements changes IF
HandlerFlagsMut(rflags) == SetIF(rflags)
HandlerFlags(rflags) == rflags

\* flags::flags() at the entry of sched()
SchedFlags == HandlerFlags(GateFlags(cpu.rflags))

\* the registers switch_to finds when timer_handler -> sched calls it
SwitchRegs ==
    [rflags |-> SchedFlags,
     rbp |-> InterruptBase - HandlerDepth + SchedFrame,
     rbx |-> cpu.rbx,
     rsp |-> InterruptBase - HandlerDepth,
     r12 |-> cpu.r12, r13 |-> cpu.r13, r14 |-> cpu.r14, r15 |-> cpu.r15]

\* sched's choice of the next task id
SchedNidMut(id, next_id) == IF id + 1 > next_id THEN 1 ELSE id + 1
SchedNid(id, next_id) == IF id + 1 >= next_id THEN 1 ELSE id + 1

\* the value sched leaves in CURRENT_ID: nid is stored before the locks are
\* tried, and is not taken back
SchedStore(id, nid) == nid

\* sched's test of the id it loads from CURRENT_ID: if id == 0 { return }
SchedIdleMut(id) == FALSE
SchedIdle(id) == id = 0

\* sched's assert_ne!(id, nid, "sched: id should not be equal to nid")
SchedAssertNeMut(id, nid) == TRUE
SchedAssertNe(id, nid) == id # nid

\* what a call of sched() comes to
SchedOutcome ==
    LET id == CURRENT_ID
        nid == SchedNid(id, tl.next_id)
    IN  IF IFBit(SchedFlags) # 0 THEN "panic: sched: should disable IF"
        ELSE IF SchedIdle(id) THEN "return"
        ELSE IF ~CanRead(list_lock) THEN "spin: task list"
        ELSE IF ~SchedAssertNe(id, nid)
             THEN "panic: sched: id should not be equal to nid"
        ELSE IF id \notin DOMAIN tl.tasks THEN "panic: sched: get current task error"
        ELSE IF ~CanRead(task_lock[id]) THEN "panic: sched: current lock failed"
        ELSE IF tl.tasks[id].pid # id THEN "panic: pid"
        ELSE IF nid \notin DOMAIN tl.tasks THEN "panic: sched: get next task error"
        ELSE IF ~CanWrite(task_lock[nid])
             THEN (IF console_locked THEN "spin: console" ELSE "skip")
        ELSE IF tl.tasks[nid].pid # nid THEN "panic: pid"
        ELSE "switch"

\* the lock guards of sched() that are alive when it enters switch_to: the
\* blocks that hold current's read guard, next's write guard and the task
\* list's read guard have all been left by then
SchedGuardsMut(id, nid) == {[lock |-> "task", pid |-> nid, mode |-> "write"]}
SchedGuards(id, nid) == {}

\* a lock with the guards of gs on it taken (by = 1) or released (by = -1)
WithGuards(l, kind, pid, gs, by) ==
    [readers |-> IF [lock |-> kind, pid |-> pid, mode |-> "read"] \in gs
                 THEN l.readers + by ELSE l.readers,
     writer |-> IF [lock |-> kind, pid |-> pid, mode |-> "write"] \in gs
                THEN by = 1 ELSE l.writer]

\* CR3 after sched's comparison of the two tasks' ctx.cr3
SchedCr3Mut(current, next, cr3) == cr3
SchedCr3(current, next, cr3) ==
    IF current.ctx.cr3 # next.ctx.cr3 THEN next.cr3 ELSE cr3

\* switch_to: what it stores in current.ctx
SwitchSave(current, regs) ==
    [current.ctx EXCEPT !.rflags = regs.rflags, !.rbp = regs.rbp,
                        !.rbx = regs.rbx, !.r12 = regs.r12, !.r13 = regs.r13,
                        !.r14 = regs.r14, !.r15 = regs.r15, !.rsp = regs.rsp]

\* switch_to: the registers after it has loaded next.ctx
SwitchLoad(next, c) ==
    [c EXCEPT !.rbx = next.ctx.rbx, !.r12 = next.ctx.r12, !.r13 = next.ctx.r13,
              !.r14 = next.ctx.r14, !.r15 = next.ctx.r15, !.rsp = next.ctx.rsp,
              !.rflags = next.ctx.rflags, !.rbp = next.ctx.rbp]

\* the hlts of one busy_wait call: for _ in 1..10 and for _ in 1..50
HltSource(fn) == IF fn = "test_thread" THEN HLT_THREAD1 ELSE HLT_THREAD2

\* the number of hlt instructions in a thread function's busy_wait, counted
\* up to HltBound
HltCount(fn) ==
    LET n == HltSource(fn)
    IN  IF n < HltBound THEN n ELSE HltBound

\* an interrupt ends the hlt the interrupted thread waits in
HltWake(t) ==
    IF pc[t].at = "hlt" /\ pc[t].fn # "idle"
    THEN /\ hlts' = [hlts EXCEPT ![t] = hlts[t] - 1]
         /\ pc' = IF hlts[t] = 1 THEN [pc EXCEPT ![t].at = "with"] ELSE pc
    ELSE UNCHANGED <<hlts, pc>>

\* the bound of the counters in since
SinceCap == FairRounds * INIT_PID

\* timer_handler's statements, in the order it executes them:
\* PIC_CHAIN.lock().eoi(0); TIMER_TICKS.fetch_add(1, SeqCst); sched()
TimerHandlerStepsMut == <<"fetch_add", "sched", "eoi">>
TimerHandlerSteps == <<"eoi", "fetch_add", "sched">>

\* the place of a statement in timer_handler
StepAt(step) == CHOOSE i \in 1..Len(TimerHandlerSteps) : TimerHandlerSteps[i] = step

\* TIMER_TICKS.fetch_add(1, ..): the value it leaves
FetchAdd(ticks) == (ticks + 1) % TickWrap

\* a statement of timer_handler has been executed when the handler is left
\* or switched away from: those before sched() always, those after it when
\* sched() returns; after a switch they wait until the thread is resumed
HandlerDone(step, out) ==
    \/ StepAt(step) < StepAt("sched")
    \/ out \in {"return", "skip"}

\* IRQ0 is delivered and handled: EOI, TIMER_TICKS += 1, sched(), and, when
\* sched switches, switch_to up to its last instruction.  The interrupted
\* thread stays inside the handler until it is switched back to.
TimerTick ==
    /\ halt = "none" /\ pic_on /\ ~pic_isr /\ IFBit(cpu.rflags) = 1
    /\ LET done == HandlerDone("fetch_add", SchedOutcome)
       IN  TIMER_TICKS' = IF done THEN FetchAdd(TIMER_TICKS) ELSE TIMER_TICKS
    /\ pic_isr' = ~HandlerDone("eoi", SchedOutcome)
    /\ HltWake(running)
    /\ LET me == running
           id == CURRENT_ID
           nid == SchedNid(id, tl.next_id)
           out == SchedOutcome
       IN  /\ CURRENT_ID' = IF out \in {"return", "spin: task list",
                                       "panic: sched: should disable IF"}
                            THEN CURRENT_ID ELSE SchedStore(id, nid)
           /\ halt' = IF out \in {"return", "skip", "switch"} THEN "none" ELSE out
           /\ IF out = "switch"
              THEN LET current == tl.tasks[id]
                       next == tl.tasks[nid]
                       regs == SwitchRegs
                   IN  /\ tl' = [tl EXCEPT !.tasks[id].ctx = SwitchSave(current, regs)]
                       /\ cpu' = [SwitchLoad(next, cpu) EXCEPT
                                    !.cr3 = SchedCr3(current, next, cpu.cr3),
                                    !.cpl = 0]
                       /\ running' = StackOwner(next.ctx.rsp)
                       /\ irq' = [irq EXCEPT ![me] = TRUE]
                       /\ sched_held' = [sched_held EXCEPT ![me] = SchedGuards(id, nid)]
                       /\ list_lock' = WithGuards(list_lock, "list", 0,
                                                  SchedGuards(id, nid), 1)
                       /\ task_lock' = [p \in Pids |->
                                          WithGuards(task_lock[p], "task", p,
                                                     SchedGuards(id, nid), 1)]
                       /\ iframe' = [iframe EXCEPT ![me] = cpu]
                       /\ saved' = [saved EXCEPT ![me] = regs]
                       /\ since' = [p \in Pids |->
                                      IF p = StackOwner(next.ctx.rsp) THEN 0
                                      ELSE IF since[p] < SinceCap THEN since[p] + 1
                                      ELSE since[p]]
                       /\ obs' = [obs EXCEPT
                                    !.preempted = @ \/ pc[me].fn = "sys_write",
                                    !.skipped = IF @ = StackOwner(next.ctx.rsp)
                                                THEN 0 ELSE @]
              ELSE /\ since' = [p \in Pids |->
                                  IF id # 0 /\ since[p] < SinceCap
                                  THEN since[p] + 1 ELSE since[p]]
                   /\ obs' = IF out = "skip" THEN [obs EXCEPT !.skipped = nid]
                             ELSE obs
                   /\ UNCHANGED <<tl, cpu, running, irq, iframe, saved,
                                   sched_held, list_lock, task_lock>>
    /\ UNCHANGED <<boot_pc, oflags, init_i, kstack, console_locked, TSS_rsp0, pic_on, uiter, sw_task, sys_log,
                   alloc_log,
                   count>>

\* the thread's return chain is where the stack pointer says it is
StackIntact(t) == cpu.rsp = saved[t].rsp

\* a thread that was switched back to returns from switch_to and sched,
\* which drops the guards it still holds, executes what timer_handler has
\* after sched() and leaves the handler by iretq.  From a stack pointer that
\* is not the one it was switched away at, the returns read whatever the
\* stack holds there: the thread goes on, or the CPU faults.
IrqReturn(t) ==
    /\ halt = "none" /\ running = t /\ irq[t]
    /\ \E ok \in (IF StackIntact(t) THEN {TRUE} ELSE BOOLEAN) :
         IF ok
         THEN /\ cpu' = [iframe[t] EXCEPT !.cr3 = cpu.cr3, !.gs_base = cpu.gs_base]
              /\ irq' = [irq EXCEPT ![t] = FALSE]
              /\ TIMER_TICKS' = IF HandlerDone("fetch_add", "switch")
                                THEN TIMER_TICKS ELSE FetchAdd(TIMER_TICKS)
              /\ pic_isr' = FALSE
              /\ sched_held' = [sched_held EXCEPT ![t] = {}]
              /\ list_lock' = WithGuards(list_lock, "list", 0, sched_held[t], -1)
              /\ task_lock' = [p \in Pids |->
                                 WithGuards(task_lock[p], "task", p,
                                            sched_held[t], -1)]
              /\ UNCHANGED halt
         ELSE /\ halt' = "fault: return through a stale stack pointer"
              /\ UNCHANGED <<cpu, irq, TIMER_TICKS, pic_isr, sched_held,
                             list_lock, task_lock>>
    /\ UNCHANGED <<boot_pc, oflags, init_i, tl, kstack, console_locked, CURRENT_ID, TSS_rsp0, pic_on,
                   running, pc, hlts, iframe, saved, uiter, sw_task, sys_log,
                   since, obs, alloc_log,
                   count>>

(***************************************************************************)
(* Kernel threads: start_task, idle, test_thread, test_thread2             *)
(***************************************************************************)
\* thread t executes its own code (it is not inside an interrupt handler)
Runs(t) == halt = "none" /\ running = t /\ ~irq[t]

\* the place a thread function starts at
EntryPc(rip) ==
    IF rip = "idle" THEN [fn |-> "idle", at |-> "hlt"]
    ELSE [fn |-> rip, at |-> "with"]

\* the stack a Console::with call and its closure take
ClosureFrame == 4 * WORD

\* the first dispatch of a kernel thread: switch_to returns through the word
\* rsp points at, into start_task, whose iretq pops rip, cs, rflags, rsp and
\* ss from the five words above it.  Anywhere else than at slot -6 the words
\* are not the ones alloc_kernel_task wrote.
StartTask(t) ==
    /\ Runs(t) /\ pc[t] = StartPc
    /\ LET tlsbase == StackTop(t) - TLS_SIZE
           k == (tlsbase - cpu.rsp) \div WORD
           slot(i) == kstack[t].slots[i]
       IN  IF k = Len(kstack[t].slots) /\ slot(k) = "start_task"
           THEN /\ cpu' = [OwnRegs(cpu, t) EXCEPT
                             !.rsp = slot(k - 4), !.rbp = slot(k - 4),
                             !.rflags = slot(k - 3),
                             !.cpl = IF slot(k - 2) = "KERN_CS" THEN 0 ELSE 3]
                /\ pc' = [pc EXCEPT ![t] = EntryPc(slot(k - 1))]
                /\ UNCHANGED halt
           ELSE /\ halt' = "fault: first dispatch off the start frame"
                /\ UNCHANGED <<cpu, pc>>
    /\ UNCHANGED <<boot_pc, oflags, init_i, tl, kstack, list_lock, task_lock,
                   console_locked, CURRENT_ID, TIMER_TICKS, TSS_rsp0, pic_on, pic_isr,
                   running, hlts, irq, iframe, saved, uiter, sw_task, sys_log,
                   since, obs, alloc_log,
                   count, sched_held>>

\* test_thread / test_thread2: Console::with takes the console lock (it
\* spins, with interrupts on, while the lock is taken)
ThreadWith(t) ==
    /\ Runs(t) /\ pc[t].fn \in {"test_thread", "test_thread2"} /\ pc[t].at = "with"
    /\ ~console_locked
    /\ console_locked' = TRUE
    /\ cpu' = [cpu EXCEPT !.rsp = cpu.rsp - ClosureFrame]
    /\ pc' = [pc EXCEPT ![t].at = "printk"]
    /\ UNCHANGED <<boot_pc, oflags, init_i, tl, kstack, list_lock, task_lock,
                   CURRENT_ID, TIMER_TICKS, TSS_rsp0, pic_on, pic_isr, running, hlts,
                   irq, iframe, saved, uiter, sw_task, sys_log, halt, since,
                   obs, alloc_log,
                   count, sched_held>>

\* the closure prints, the lock is released, count += 1, and busy_wait
\* reaches its first hlt
ThreadPrintk(t) ==
    /\ Runs(t) /\ pc[t].fn \in {"test_thread", "test_thread2"} /\ pc[t].at = "printk"
    /\ console_locked' = FALSE
    /\ cpu' = [cpu EXCEPT !.rsp = cpu.rsp + ClosureFrame]
    /\ hlts' = [hlts EXCEPT ![t] = HltCount(pc[t].fn)]
    /\ pc' = [pc EXCEPT ![t].at = "hlt"]
    /\ UNCHANGED <<boot_pc, oflags, init_i, tl, kstack, list_lock, task_lock,
                   CURRENT_ID, TIMER_TICKS, TSS_rsp0, pic_on, pic_isr, running, irq,
                   iframe, saved, uiter, sw_task, sys_log, halt, since,
                   obs, alloc_log,
                   count, sched_held>>


(***************************************************************************)
(* The user task: test_userlevel, and its syscall                          *)
(***************************************************************************)
\* test_userlevel's a_i (i = 0..5) in its current loop iteration
UserArg(i) == i + 1 + uiter

\* the registers after test_userlevel's pushq %rcx, pushq %r11 and syscall
\* (rcx <- return address, r11 <- rflags, SFMASK clears IF) and after
\* syscall_entry's prologue (push rbp; mov rbp, rsp), on the user stack
SyscallInsn(c) ==
    LET s == c.rsp - 2 * WORD
    IN  [c EXCEPT !.rax = SYS_WRITE_NR,
                  !.rdi = UserArg(0), !.rsi = UserArg(1), !.rdx = UserArg(2),
                  !.r8 = UserArg(3), !.r9 = UserArg(4), !.r10 = UserArg(5),
                  !.rcx = "after_syscall", !.r11 = c.rflags,
                  !.rflags = ClearIF(c.rflags), !.cpl = 0,
                  !.rbp = s - WORD, !.rsp = s - WORD]

\* rsp += 8: the user's rsp, from the rbp syscall_entry captured
SavedUserRsp(rbp) == rbp + WORD

\* the SyscallContext syscall_entry stores in task.sysctx
SyscallSave(c) ==
    [rip |-> c.rcx, rax |-> c.rax, rdi |-> c.rdi, rsi |-> c.rsi,
     rdx |-> c.rdx, r8 |-> c.r8, r9 |-> c.r9, r10 |-> c.r10,
     rflags |-> c.r11, rsp |-> SavedUserRsp(c.rbp)]

\* the stack sys_write's frames take below kern_rsp
SysWriteFrame == 6 * WORD

\* a word of the kernel's own on a stack: a return address or a saved rbp
KernelWord == 1048576 + 1

\* kernel code computes in the caller-saved registers: none of them keeps
\* the value the user passed (0 stands for the kernel's values)
KernelScratch(c) ==
    [c EXCEPT !.rax = 0, !.rdi = 0, !.rsi = 0, !.rdx = 0, !.r8 = 0,
              !.r9 = 0, !.r10 = 0, !.r11 = 0, !.rcx = "none"]

\* the first instructions of test_userlevel
UserEntry(t) ==
    /\ Runs(t) /\ pc[t] = [fn |-> "test_userlevel", at |-> "entry"]
    /\ cpu' = OwnRegs(cpu, t)
    /\ pc' = [pc EXCEPT ![t].at = "syscall"]
    /\ UNCHANGED <<boot_pc, oflags, init_i, tl, kstack, list_lock, task_lock,
                   console_locked, CURRENT_ID, TIMER_TICKS, TSS_rsp0, pic_on, pic_isr,
                   running, hlts, irq, iframe, saved, uiter, sw_task, sys_log,
                   halt, since, obs, alloc_log,
                   count, sched_held>>

\* syscall_entry's statements after it has captured the registers, in the
\* order it executes them: the block that stores task.sysctx under the locks,
\* movq kern_rsp, %rsp, and interrupts::enable()
SyscallEntryStepsMut == <<"sti", "sysctx", "rsp">>
SyscallEntrySteps == <<"sysctx", "rsp", "sti">>

\* RFLAGS when a statement of syscall_entry executes, entered with rflags
EntryFlags(step, rflags) ==
    LET at(x) == CHOOSE i \in 1..Len(SyscallEntrySteps) : SyscallEntrySteps[i] = x
    IN  IF at("sti") < at(step) THEN SetIF(rflags) ELSE rflags

\* RFLAGS when _syscall_return is called: interrupts::disable() precedes it
ReturnFlags(rflags) == ClearIF(rflags)

\* the lock guards of syscall_entry that are alive when it enables
\* interrupts: the block that holds the task list's read guard and the
\* task's write guard has been left by then
SyscallGuardsMut(id) == {[lock |-> "task", pid |-> id, mode |-> "write"]}
SyscallGuards(id) == {}

\* what stops syscall_entry before it has switched stacks ("none": nothing)
SyscallEntryStop ==
    IF ~CanRead(list_lock) THEN "spin: task list"
    ELSE IF CURRENT_ID \notin DOMAIN tl.tasks
         THEN "panic: syscall: get current task failed"
    ELSE IF ~CanWrite(task_lock[CURRENT_ID]) THEN "spin: task"
    ELSE "none"

\* syscall_entry, entered with the registers c, with interrupts off: the
\* registers are
\* stored in the current task's sysctx, rsp moves to the top of its kernel
\* stack, interrupts are enabled and sys_write is called (its call and its
\* prologue push a return address and rbp at the top of that stack)
SyscallEntry(t, c) ==
    /\ Runs(t) /\ pc[t] = [fn |-> "test_userlevel", at |-> "syscall"]
    /\ LET stop == SyscallEntryStop
       IN  IF stop # "none"
           THEN /\ halt' = stop
                /\ UNCHANGED <<tl, cpu, kstack, pc, task_lock>>
           ELSE LET kern_rsp == tl.tasks[CURRENT_ID].kern_stack
                    o == StackOwner(kern_rsp)
                IN  /\ tl' = [tl EXCEPT !.tasks[CURRENT_ID].sysctx = SyscallSave(c)]
                    /\ cpu' = [KernelScratch(c) EXCEPT
                                 !.rsp = kern_rsp - SysWriteFrame,
                                 !.rbp = kern_rsp - 2 * WORD,
                                 !.rflags = SetIF(c.rflags)]
                    /\ kstack' = [kstack EXCEPT ![o].kern_rsp = KernelWord,
                                                ![o].user_rsp = KernelWord]
                    /\ task_lock' = [p \in Pids |->
                                       WithGuards(task_lock[p], "task", p,
                                                  SyscallGuards(CURRENT_ID), 1)]
                    /\ pc' = [pc EXCEPT ![t] = [fn |-> "sys_write", at |-> "enter"]]
                    /\ halt' = IF o = t THEN "none"
                               ELSE "fault: syscall on another task's stack"
    /\ obs' = [obs EXCEPT
                 !.preempted = FALSE,
                 !.sysif.sysctx = IFBit(EntryFlags("sysctx", c.rflags)),
                 !.sysif.rsp = IFBit(EntryFlags("rsp", c.rflags)),
                 !.entry = [rip |-> "after_syscall", rax |-> c.rax,
                            rdi |-> UserArg(0), rsi |-> UserArg(1),
                            rdx |-> UserArg(2), r8 |-> UserArg(3),
                            r9 |-> UserArg(4), r10 |-> UserArg(5),
                            rsp |-> cpu.rsp - 2 * WORD]]
    /\ UNCHANGED <<boot_pc, oflags, init_i, list_lock, console_locked, CURRENT_ID, TIMER_TICKS, TSS_rsp0, pic_on, pic_isr,
                   running, hlts, irq, iframe, saved, uiter, sw_task, sys_log,
                   since, alloc_log,
                   count, sched_held>>

\* test_userlevel's syscall
Syscall(t) == SyscallEntry(t, SyscallInsn(cpu))

\* sys_write: let tl = task::TaskList::get()
SysWriteList(t) ==
    /\ Runs(t) /\ pc[t] = [fn |-> "sys_write", at |-> "enter"]
    /\ CanRead(list_lock)
    /\ list_lock' = [list_lock EXCEPT !.readers = list_lock.readers + 1]
    /\ pc' = [pc EXCEPT ![t].at = "list"]
    /\ UNCHANGED <<boot_pc, oflags, init_i, tl, kstack, task_lock,
                   console_locked, CURRENT_ID, TIMER_TICKS, cpu, TSS_rsp0,
                   pic_on, pic_isr, running, hlts, irq, iframe, saved, uiter, sw_task,
                   sys_log, halt, since, obs, alloc_log,
                   count, sched_held>>

\* sys_write: tl.current().expect(..); let task = task_lock.read()
SysWriteTask(t) ==
    /\ Runs(t) /\ pc[t] = [fn |-> "sys_write", at |-> "list"]
    /\ IF CURRENT_ID \notin DOMAIN tl.tasks
       THEN /\ halt' = "panic: syscall: get current task failed"
            /\ UNCHANGED <<task_lock, sw_task, pc>>
       ELSE /\ CanRead(task_lock[CURRENT_ID])
            /\ task_lock' = [task_lock EXCEPT ![CURRENT_ID].readers = @ + 1]
            /\ sw_task' = [sw_task EXCEPT !.task = CURRENT_ID]
            /\ pc' = [pc EXCEPT ![t].at = "locked"]
            /\ UNCHANGED halt
    /\ UNCHANGED <<boot_pc, oflags, init_i, tl, kstack, list_lock,
                   console_locked, CURRENT_ID, TIMER_TICKS, cpu, TSS_rsp0,
                   pic_on, pic_isr, running, hlts, irq, iframe, saved, uiter, sys_log,
                   since, obs, alloc_log,
                   count, sched_held>>

\* sys_write: rax = task.sysctx.rax; the block ends and drops both guards
SysWriteRead(t) ==
    /\ Runs(t) /\ pc[t] = [fn |-> "sys_write", at |-> "locked"]
    /\ sw_task' = [sw_task EXCEPT !.rax = tl.tasks[sw_task.task].sysctx.rax]
    /\ task_lock' = [task_lock EXCEPT ![sw_task.task].readers = @ - 1]
    /\ list_lock' = [list_lock EXCEPT !.readers = list_lock.readers - 1]
    /\ pc' = [pc EXCEPT ![t].at = "with"]
    /\ UNCHANGED <<boot_pc, oflags, init_i, tl, kstack, console_locked,
                   CURRENT_ID, TIMER_TICKS, cpu, TSS_rsp0, pic_on, pic_isr, running,
                   hlts, irq, iframe, saved, uiter, sys_log, halt, since,
                   obs, alloc_log,
                   count, sched_held>>

\* sys_write: id = CURRENT_ID.load(); Console::with takes the console lock
SysWriteWith(t) ==
    /\ Runs(t) /\ pc[t] = [fn |-> "sys_write", at |-> "with"]
    /\ ~console_locked
    /\ sw_task' = [sw_task EXCEPT !.id = CURRENT_ID]
    /\ console_locked' = TRUE
    /\ cpu' = [cpu EXCEPT !.rsp = cpu.rsp - ClosureFrame]
    /\ pc' = [pc EXCEPT ![t].at = "printk"]
    /\ UNCHANGED <<boot_pc, oflags, init_i, tl, kstack, list_lock, task_lock,
                   CURRENT_ID, TIMER_TICKS, TSS_rsp0, pic_on, pic_isr, running, hlts,
                   irq, iframe, saved, uiter, sys_log, halt, since,
                   obs, alloc_log,
                   count, sched_held>>

\* sys_write: printk!("sys_write: thread {}: rax {}", id, rax); the lock is
\* released and sys_write returns
SysWritePrintk(t) ==
    /\ Runs(t) /\ pc[t] = [fn |-> "sys_write", at |-> "printk"]
    /\ sys_log' = [id |-> sw_task.id, rax |-> sw_task.rax]
    /\ console_locked' = FALSE
    /\ cpu' = [cpu EXCEPT !.rsp = cpu.rsp + ClosureFrame]
    /\ pc' = [pc EXCEPT ![t].at = "ret"]
    /\ UNCHANGED <<boot_pc, oflags, init_i, tl, kstack, list_lock, task_lock,
                   CURRENT_ID, TIMER_TICKS, TSS_rsp0, pic_on, pic_isr, running, hlts,
                   irq, iframe, saved, uiter, sw_task, halt, since,
                   obs, alloc_log,
                   count, sched_held>>

\* _syscall_return: the registers it loads from sysctx, and sysret
\* (rip <- rcx, rflags <- r11, ring 3)
SyscallReturnMut(sysctx, c) ==
    [c EXCEPT !.rsp = sysctx.rsp, !.rbp = sysctx.rsp, !.rbx = sysctx.rsp,
              !.r11 = sysctx.rflags, !.rflags = sysctx.rflags,
              !.rcx = sysctx.rip,
              !.rax = sysctx.rax, !.rdi = sysctx.rsi, !.rsi = sysctx.rsi,
              !.rdx = sysctx.rdx, !.r8 = sysctx.r8, !.r9 = sysctx.r9,
              !.r10 = sysctx.r10, !.cpl = 3]
SyscallReturn(sysctx, c) ==
    [c EXCEPT !.rsp = sysctx.rsp, !.rbp = sysctx.rsp, !.rbx = sysctx.rsp,
              !.r11 = sysctx.rflags, !.rflags = sysctx.rflags,
              !.rcx = sysctx.rip,
              !.rax = sysctx.rax, !.rdi = sysctx.rdi, !.rsi = sysctx.rsi,
              !.rdx = sysctx.rdx, !.r8 = sysctx.r8, !.r9 = sysctx.r9,
              !.r10 = sysctx.r10, !.cpl = 3]

\* what stops _syscall_return before sysret ("none": nothing)
SyscallReturnStop ==
    IF ~CanRead(list_lock) THEN "spin: task list"
    ELSE IF CURRENT_ID \notin DOMAIN tl.tasks
         THEN "panic: syscall: get current task failed"
    ELSE IF ~CanRead(task_lock[CURRENT_ID]) THEN "spin: task"
    ELSE "none"

\* interrupts::disable(); _syscall_return()
SysReturn(t) ==
    /\ Runs(t) /\ pc[t] = [fn |-> "sys_write", at |-> "ret"]
    /\ LET stop == SyscallReturnStop
       IN  IF stop # "none"
           THEN halt' = stop /\ UNCHANGED <<cpu, pc>>
           ELSE LET sysctx == tl.tasks[CURRENT_ID].sysctx
                IN  /\ cpu' = SyscallReturn(sysctx, cpu)
                    /\ pc' = [pc EXCEPT ![t] = [fn |-> "test_userlevel",
                                                at |-> sysctx.rip]]
                    /\ UNCHANGED halt
    /\ obs' = [obs EXCEPT !.sysif.ret = IFBit(ReturnFlags(cpu.rflags))]
    /\ UNCHANGED <<boot_pc, oflags, init_i, tl, kstack, list_lock, task_lock,
                   console_locked, CURRENT_ID, TIMER_TICKS, TSS_rsp0, pic_on, pic_isr,
                   running, hlts, irq, iframe, saved, uiter, sw_task, sys_log,
                   since, alloc_log,
                   count, sched_held>>

\* test_userlevel after the syscall: popq %r11, popq %rcx, and a_i += 1
UserAfterSyscall(t) ==
    /\ Runs(t) /\ pc[t] = [fn |-> "test_userlevel", at |-> "after_syscall"]
    /\ cpu' = [cpu EXCEPT !.rsp = cpu.rsp + 2 * WORD]
    /\ uiter' = (uiter + 1) % IterWrap
    /\ pc' = [pc EXCEPT ![t].at = "pause"]
    /\ UNCHANGED <<boot_pc, oflags, init_i, tl, kstack, list_lock, task_lock,
                   console_locked, CURRENT_ID, TIMER_TICKS, TSS_rsp0, pic_on, pic_isr,
                   running, hlts, irq, iframe, saved, sw_task, sys_log, halt,
                   since, obs, alloc_log,
                   count, sched_held>>

\* test_userlevel: the pause loop ends
UserPause(t) ==
    /\ Runs(t) /\ pc[t] = [fn |-> "test_userlevel", at |-> "pause"]
    /\ pc' = [pc EXCEPT ![t].at = "syscall"]
    /\ UNCHANGED <<boot_pc, oflags, init_i, tl, kstack, list_lock, task_lock,
                   console_locked, CURRENT_ID, TIMER_TICKS, cpu, TSS_rsp0,
                   pic_on, pic_isr, running, hlts, irq, iframe, saved, uiter, sw_task,
                   sys_log, halt, since, obs, alloc_log,
                   count, sched_held>>

(***************************************************************************)
(* The system                                                              *)
(***************************************************************************)
Boot ==
    \/ KernelMainSetup \/ InterruptsInit \/ KernelMainLoop
    \/ TaskInitAllocKernel \/ TaskInitPopFlags \/ TaskInitDisable
    \/ TaskInitAllocTask \/ TaskInitStoreCurrent \/ TaskInitRetToUserspace

ThreadStep(t) ==
    \/ IrqReturn(t) \/ StartTask(t) \/ ThreadWith(t) \/ ThreadPrintk(t)
    \/ UserEntry(t) \/ Syscall(t) \/ SysWriteList(t) \/ SysWriteTask(t)
    \/ SysWriteRead(t) \/ SysWriteWith(t) \/ SysWritePrintk(t)
    \/ SysReturn(t) \/ UserAfterSyscall(t) \/ UserPause(t)

Next == Boot \/ TaskInitEnter \/ TimerTick \/ (\E t \in Threads : ThreadStep(t))

Spec == Init /\ [][Next]_vars


\* Timer interrupts keep arriving while IF is set, and the CPU keeps
\* executing the thread it is in.  Nothing in kernel_main calls task::init:
\* no fairness is stated for TaskInitEnter.
FairSpec ==
    /\ Spec
    /\ WF_vars(TimerTick)
    /\ WF_vars(Boot)
    /\ WF_vars(\E t \in Threads : ThreadStep(t))

(***************************************************************************)
(* Claims                                                                  *)
(***************************************************************************)
\* tasking has started and the system has not stopped
Tasking == boot_pc = "in_userspace" /\ halt = "none"

\* C1: once tasking has started, outside sched()/switch_to (which TimerTick
\* executes in one step), the task whose pid is CURRENT_ID is the task whose
\* stack and registers the CPU executes, also after a tick on which sched()
\* did not switch.
C1_CurrentIdIsExecuting ==
    (Tasking /\ CURRENT_ID # 0) => running = CURRENT_ID

\* C2: for a task A that sched() switched away from, nothing writes A.ctx
\* until A resumes (A.ctx still holds what switch_to saved at the
\* preemption), and when A resumes, its rbx, r12..r15, rbp, rsp and rflags
\* are the values saved at that preemption.
C2_ContextRoundTrip ==
    \A a \in Pids :
        (Tasking /\ irq[a]) =>
            IF running = a
            THEN CalleeRegs(cpu) = saved[a]
            ELSE CalleeRegs(tl.tasks[a].ctx) = saved[a]

\* C3: with K = INIT_PID allocated tasks, every window of N = FairRounds * K
\* consecutive timer ticks schedules each task at least FairRounds - 1
\* times: no task is left unscheduled for N ticks in a row.
C3_RoundRobinFair ==
    Tasking => \A p \in Pids : since[p] < SinceCap

\* the task sched() skipped takes 8 ticks in a row without being scheduled
C3_Starved == Tasking /\ obs.skipped = INIT_PID /\ since[INIT_PID] = SinceCap

\* task t executes user code that a sysret from its syscall has returned to
BackInUser(t) ==
    /\ Runs(t) /\ pc[t].fn = "test_userlevel"
    /\ pc[t].at \notin {"entry", "syscall", "pause"}

\* C4: a user task that executes syscall with RAX = v, (RDI, RSI, RDX, R8,
\* R9, R10) = (a0..a5), return address r and stack pointer s resumes in
\* ring 3 at r with RSP = s and with RAX and the six argument registers as
\* they were at entry, also when ticks switched away from it while the
\* handler ran; with RDI = 1 at entry the loop goes on with RDI = 2.
C4_SyscallRoundTrip ==
    \A t \in Pids :
        /\ BackInUser(t) =>
              /\ pc[t].at = obs.entry.rip
              /\ cpu.cpl = 3
              /\ cpu.rsp = obs.entry.rsp
              /\ cpu.rax = obs.entry.rax
              /\ <<cpu.rdi, cpu.rsi, cpu.rdx, cpu.r8, cpu.r9, cpu.r10>>
                   = <<obs.entry.rdi, obs.entry.rsi, obs.entry.rdx,
                       obs.entry.r8, obs.entry.r9, obs.entry.r10>>
        /\ (Runs(t) /\ pc[t] = [fn |-> "test_userlevel", at |-> "pause"]
              /\ obs.entry.rdi = 1) => UserArg(0) = 2

\* a syscall that was switched away from inside sys_write has returned
C4_ReturnedAfterPreemption ==
    /\ BackInUser(INIT_PID) /\ obs.preempted
    /\ obs.entry.rax = SYS_WRITE_NR /\ obs.entry.rdi = 2

\* C5: when sched() fails to take the write lock on the next task, the
\* switch is skipped, and while timer ticks keep arriving that task is
\* switched to and executes again at some later tick.
C5_SkippedTaskRunsAgain ==
    \A p \in Pids :
        (Tasking /\ obs.skipped = p) ~> (running = p \/ halt # "none")

\* C6: every pid alloc_kernel_task or alloc_task assigns lies in
\* [1, MAX_TASK); the k-th successful call on a list assigns pid k (the
\* calls observed follow the tl.next_id - 1 - Len(alloc_log) calls that
\* built the list); and next_id never decreases.
C6_PidsInRangeAndMonotone ==
    /\ [](\A i \in 1..Len(alloc_log) :
            /\ alloc_log[i] >= 1 /\ alloc_log[i] < MAX_TASK
            /\ alloc_log[i] = Cardinality(DOMAIN tl.tasks) - Len(alloc_log) + i
            /\ tl.tasks[alloc_log[i]].pid = alloc_log[i])
    /\ [][tl'.next_id >= tl.next_id]_vars

\* the last pid below MAX_TASK has been assigned, after two other calls
C6_LastPidAssigned ==
    /\ Len(alloc_log) = MaxAllocCalls
    /\ alloc_log[Len(alloc_log)] = MAX_TASK - 1
    /\ tl.next_id = MAX_TASK

\* C7: when task::init has allocated three kernel threads and the user task
\* and is at ret_to_userspace, CURRENT_ID is nonzero and is the pid (4) of
\* the user task "init"; the next step enters that task in ring 3, and no
\* timer tick is serviced between the store to CURRENT_ID and that entry.
C7_InitEntersUserTask ==
    [][boot_pc = "init_ret" =>
         /\ CURRENT_ID # 0 /\ CURRENT_ID = INIT_PID
         /\ DOMAIN tl.tasks = 1..INIT_PID
         /\ tl.tasks[CURRENT_ID].name = "init"
         /\ tl.tasks[CURRENT_ID].pid = CURRENT_ID
         /\ \A p \in 1..(INIT_PID - 1) : tl.tasks[p].ppid = 0
         /\ TIMER_TICKS' = TIMER_TICKS
         /\ CURRENT_ID' = CURRENT_ID
         /\ boot_pc' = "in_userspace"
         /\ running' = CURRENT_ID
         /\ cpu'.cpl = 3
         /\ pc'[CURRENT_ID] = [fn |-> "test_userlevel", at |-> "entry"]]_vars

\* the user task has just been entered from ret_to_userspace
C7_UserTaskEntered ==
    /\ boot_pc = "in_userspace" /\ running = INIT_PID /\ CURRENT_ID = INIT_PID
    /\ pc[INIT_PID] = [fn |-> "test_userlevel", at |-> "entry"]
    /\ cpu.cpl = 3 /\ ~irq[INIT_PID]

\* C8: from kernel_main, execution eventually reaches ret_to_userspace with
\* CURRENT_ID = 4.
C8_BootReachesUser ==
    <>(boot_pc = "init_ret" /\ CURRENT_ID = INIT_PID)

\* C9: at each sysret into ring 3 (the first entry through ret_to_userspace
\* and every return through _syscall_return), TSS.privilege_stack_table[0]
\* is the ctx.rsp of the task that resumes.
C9_TssRsp0IsCtxRsp ==
    [][/\ (boot_pc = "init_ret" /\ boot_pc' = "in_userspace")
            => TSS_rsp0' = tl'.tasks[running'].ctx.rsp
       /\ \A t \in Pids :
            (pc[t].fn = "sys_write" /\ pc'[t].fn = "test_userlevel")
            => TSS_rsp0' = tl'.tasks[t].ctx.rsp]_vars

\* C10: when switch_to(current, next) is entered, and while a task starts or
\* resumes after a switch, CR3 is next's ctx.cr3.
C10_Cr3IsNextCr3 ==
    /\ [][(TIMER_TICKS' # TIMER_TICKS /\ running' # running)
             => /\ cpu'.cr3 = tl.tasks[CURRENT_ID'].ctx.cr3
                /\ cpu'.cr3 = tl'.tasks[running'].ctx.cr3]_vars
    /\ [](\A t \in Pids :
            (Tasking /\ running = t /\ (irq[t] \/ pc[t] = StartPc))
            => cpu.cr3 = tl.tasks[t].ctx.cr3)

\* the user task has been switched back to, from a kernel thread, and is
\* about to return from the handler
C10_UserTaskResumes ==
    /\ Tasking /\ running = INIT_PID /\ irq[INIT_PID]
    /\ cpu.cr3 = UserPML4(INIT_PID) /\ tl.tasks[INIT_PID - 1].ctx.cr3 = KERNEL_PML4

\* C11: the timer-interrupt path (timer_handler -> sched) never tries to
\* take the console lock while the code it preempted holds it: the IRQ0 path
\* never spins for ever on the console lock.
C11_IrqNeverSpinsOnConsole == halt # "spin: console"

(***************************************************************************)
(* syscall_entry under any syscall number: the system, with a user program *)
(* that also executes syscall with numbers other than 16                   *)
(***************************************************************************)
\* the syscall numbers user code passes in rax
SyscallNrs == {SYS_WRITE_NR, SYS_WRITE_NR + 1}

\* the user task executes syscall with a number that is not write's
SyscallOther(t) ==
    \E nr \in SyscallNrs \ {SYS_WRITE_NR} :
        SyscallEntry(t, [SyscallInsn(cpu) EXCEPT !.rax = nr])

DispatchNext == Next \/ (\E t \in Threads : SyscallOther(t))

DispatchSpec == Init /\ [][DispatchNext]_vars

\* C12: syscall_entry dispatches on the number in RAX: sys_write, which logs
\* the caller's id and RAX, runs only when RAX = 16; a syscall with another
\* number leaves no sys_write log entry.
C12_WriteOnlyForNr16 ==
    /\ sys_log.id # 0 => sys_log.rax = SYS_WRITE_NR
    /\ \A t \in Pids :
         pc[t].fn = "sys_write" => tl.tasks[t].sysctx.rax = SYS_WRITE_NR

\* C13: every timer interrupt acknowledges IRQ0 at the PIC, then adds exactly
\* one to TIMER_TICKS, then enters sched(): IRQ0 is never still in service
\* once the handler has switched away from a thread, and every handler in
\* which sched() switched or skipped has counted its tick before doing so, so
\* that a preempted thread finds a later tick count when it runs again.
C13_EoiTickThenSched ==
    /\ [](~pic_isr)
    /\ [][((\E t \in Threads : irq'[t] /\ ~irq[t]) \/ obs'.skipped # obs.skipped)
            => TIMER_TICKS' = FetchAdd(TIMER_TICKS)]_vars

\* a thread was switched away from inside the handler and another one runs
C13_PreemptedThreadWaits ==
    /\ Tasking /\ ~pic_isr
    /\ \E t \in Threads : irq[t] /\ running # t /\ ~irq[running]

(***************************************************************************)
(* The rotation of task::init's four tasks on its own: the loop counters   *)
(* of test_thread and test_thread2 over RotateTicks timer ticks.  Every    *)
(* tick finds the running kernel thread waiting in a hlt and the user task *)
(* outside the kernel, and every sched() switches to the next task.        *)
(***************************************************************************)
\* the number of timer ticks followed
RotateTicks == 400

\* the task list and the stacks task::init leaves
InitList ==
    alloc_task(
        alloc_kernel_task(
            alloc_kernel_task(
                alloc_kernel_task(TaskListNew, InitNames[1], InitRips[1]),
                InitNames[2], InitRips[2]),
            InitNames[3], InitRips[3]),
        "init", 1, "test_userlevel")

InitStacks ==
    [p \in Pids |-> IF p < INIT_PID THEN KernelStack(p, InitRips[p])
                    ELSE UserStack(p)]

\* tasking has started: the user task runs, no thread has run yet
RotateInit ==
    /\ tl = InitList
    /\ kstack = InitStacks
    /\ boot_pc = "in_userspace"
    /\ oflags = 0
    /\ init_i = Len(InitRips)
    /\ list_lock = LockFree
    /\ task_lock = [p \in Pids |-> LockFree]
    /\ console_locked = FALSE
    /\ CURRENT_ID = INIT_PID
    /\ TIMER_TICKS = 0
    /\ cpu = CpuBoot
    /\ TSS_rsp0 = 0
    /\ pic_on = TRUE
    /\ pic_isr = FALSE
    /\ running = INIT_PID
    /\ pc = [t \in Threads |->
               IF t = 0 THEN NoPc
               ELSE IF t < INIT_PID THEN EntryPc(InitRips[t])
               ELSE [fn |-> "test_userlevel", at |-> "pause"]]
    /\ hlts = [t \in Threads |-> 0]
    /\ irq = [t \in Threads |-> FALSE]
    /\ iframe = [t \in Threads |-> CpuBoot]
    /\ saved = [t \in Threads |-> CalleeRegs(CpuBoot)]
    /\ uiter = 0
    /\ sw_task = [task |-> 0, rax |-> 0, id |-> 0]
    /\ sys_log = [id |-> 0, rax |-> 0]
    /\ halt = "none"
    /\ since = [p \in Pids |-> 0]
    /\ obs = [preempted |-> FALSE, skipped |-> 0,
              entry |-> [rip |-> "none", rax |-> 0, rdi |-> 0, rsi |-> 0,
                         rdx |-> 0, r8 |-> 0, r9 |-> 0, r10 |-> 0, rsp |-> 0],
              sysif |-> [sysctx |-> 0, rsp |-> 0, ret |-> 0],
              at_sti |-> BeforeSti]
    /\ alloc_log = <<>>
    /\ count = [t \in Threads |-> 0]
    /\ sched_held = [t \in Threads |-> {}]

RotateRest ==
    UNCHANGED <<boot_pc, oflags, init_i, tl, kstack, list_lock, task_lock,
                console_locked, cpu, TSS_rsp0, pic_on, pic_isr, irq, iframe,
                saved, uiter, sw_task, sys_log, halt, since, obs, alloc_log,
                sched_held>>

\* one turn of the loop of test_thread / test_thread2 up to the first hlt of
\* busy_wait: Console::with and printk!, count += 1
RotateThread(t) ==
    /\ running = t /\ pc[t].fn \in {"test_thread", "test_thread2"}
    /\ pc[t].at = "with"
    /\ count' = [count EXCEPT ![t] = count[t] + 1]
    /\ hlts' = [hlts EXCEPT ![t] = HltSource(pc[t].fn)]
    /\ pc' = [pc EXCEPT ![t].at = "hlt"]
    /\ UNCHANGED <<CURRENT_ID, TIMER_TICKS, running>>
    /\ RotateRest

\* a timer interrupt: it ends the hlt the running thread waits in, counts the
\* tick, and sched() switches to the next task
RotateTick ==
    /\ TIMER_TICKS < RotateTicks
    /\ pc[running].at \in {"hlt", "pause"}
    /\ TIMER_TICKS' = TIMER_TICKS + 1
    /\ HltWake(running)
    /\ CURRENT_ID' = SchedStore(CURRENT_ID, SchedNid(CURRENT_ID, tl.next_id))
    /\ running' = CURRENT_ID'
    /\ UNCHANGED count
    /\ RotateRest

RotateNext == RotateTick \/ (\E t \in Pids : RotateThread(t))

RotateSpec == RotateInit /\ [][RotateNext]_vars

\* C14: with idle, kthread1, kthread2 and init allocated and tasking started,
\* once 400 timer ticks have been handled the loop counter of test_thread and
\* that of test_thread2 have each been incremented at least 80 times.
C14_CountersReach80 ==
    TIMER_TICKS = RotateTicks =>
        \A t \in Pids :
            pc[t].fn \in {"test_thread", "test_thread2"} => count[t] >= 80

\* C15: sched() is entered with IF clear only: its assertion 'sched: should
\* disable IF' never fails, and the flags switch_to saves for a thread it
\* switches away from inside the handler have IF clear.
C15_SchedEntersWithIfClear ==
    /\ halt # "panic: sched: should disable IF"
    /\ \A t \in Threads : irq[t] => IFBit(saved[t].rflags) = 0

\* a thread that ran with interrupts on was switched away from in the handler
C15_SwitchedWithIfClear ==
    /\ Tasking
    /\ \E t \in Threads :
         /\ irq[t] /\ running # t
         /\ IFBit(iframe[t].rflags) = 1 /\ IFBit(saved[t].rflags) = 0

\* the id after id in the cycle 1, 2, .., next_id - 1, 1, ..
CycleNext(id, next_id) == IF id + 1 < next_id THEN id + 1 ELSE 1

\* C16: for every id with 1 <= id < next_id, sched() chooses the id that
\* follows id in the cycle of the allocated ids, which lies in [1, next_id)
\* and names an allocated task; and a tick taken with CURRENT_ID = id # 0
\* leaves that id in CURRENT_ID whatever the task locks turn out to be: nid
\* is stored before any task lock is tried.
C16_NextIdRoundRobin ==
    /\ \A n \in 2..MAX_TASK : \A id \in 1..(n - 1) :
          /\ SchedNid(id, n) = CycleNext(id, n)
          /\ SchedNid(id, n) \in 1..(n - 1)
          /\ SchedNid(id, n) \in DOMAIN ListOf(n).tasks
    /\ [](\A id \in 1..(tl.next_id - 1) :
             SchedNid(id, tl.next_id) \in DOMAIN tl.tasks)
    /\ [][(TIMER_TICKS' # TIMER_TICKS /\ CURRENT_ID # 0
           /\ halt' # "spin: task list")
          => CURRENT_ID' = CycleNext(CURRENT_ID, tl.next_id)]_vars

\* the cycle has wrapped: the tick that preempted the last task, the user
\* task, left the first id in CURRENT_ID
C16_WrappedToFirst ==
    /\ Tasking /\ CURRENT_ID = 1
    /\ irq[INIT_PID] /\ tl.next_id = INIT_PID + 1

\* C17: while CURRENT_ID is 0 a timer tick's call of sched() returns at once:
\* it takes neither the task-list lock nor a task lock, and leaves CURRENT_ID,
\* the task table with every ctx, CR3 and the running thread as they were,
\* also while task::init holds the task list to allocate tasks.
C17_NoSwitchBeforeTasking ==
    [][(TIMER_TICKS' # TIMER_TICKS /\ CURRENT_ID = 0)
       => /\ UNCHANGED <<CURRENT_ID, tl, kstack, list_lock, task_lock>>
          /\ UNCHANGED <<cpu, running, irq, saved, halt>>]_vars

\* ticks have been taken and interrupts are on while task::init, holding the
\* task list for writing, is allocating the kernel threads
C17_TickWhileAllocating ==
    /\ boot_pc = "init_alloc_kernel" /\ init_i > 0 /\ list_lock.writer
    /\ CURRENT_ID = 0 /\ halt = "none"
    /\ pic_on /\ IFBit(cpu.rflags) = 1 /\ TIMER_TICKS # 0

\* C18: sched() takes the task list and the current task's lock for reading
\* and the next task's lock for writing, and holds none of them when it
\* enters switch_to: a switch takes place only when the list and the current
\* task have no writer and the next task's lock is free, a tick leaves every
\* lock as it found it, and no switched-out thread holds a guard of sched().
C18_SchedLocksReleased ==
    /\ [](\A t \in Threads : sched_held[t] = {})
    /\ [][TIMER_TICKS' # TIMER_TICKS => UNCHANGED <<list_lock, task_lock>>]_vars
    /\ [][(\E t \in Threads : irq'[t] /\ ~irq[t])
          => /\ CanRead(list_lock) /\ CanRead(task_lock[CURRENT_ID])
             /\ CanWrite(task_lock[CURRENT_ID'])]_vars

\* the user task was switched away from inside sys_write, where it holds read
\* guards of its own on the task list and on its task: sched() read both
C18_SwitchedOutUnderReaders ==
    /\ Tasking /\ irq[INIT_PID] /\ running # INIT_PID
    /\ list_lock.readers = 1 /\ task_lock[INIT_PID].readers = 1
    /\ sched_held[INIT_PID] = {}

\* C19: in a syscall IF is 0 while syscall_entry stores the user registers in
\* sysctx under the task's write lock and while it moves RSP to the kernel
\* stack; wherever the task is inside sys_write, with interrupts on, the
\* write lock is released and RSP is on the task's own kernel stack; and IF
\* is 0 when _syscall_return reads sysctx and executes sysret.
C19_IfOnlyInsideDispatch ==
    /\ obs.sysif = [sysctx |-> 0, rsp |-> 0, ret |-> 0]
    /\ \A t \in Pids :
         (Runs(t) /\ pc[t].fn = "sys_write")
         => /\ IFBit(cpu.rflags) = 1
            /\ \A p \in Pids : ~task_lock[p].writer
            /\ StackOwner(cpu.rsp) = t /\ cpu.cpl = 0

\* a syscall has gone through entry, dispatch and return, and the user task
\* is back in ring 3 with interrupts on
C19_SyscallWentThrough ==
    /\ Tasking /\ Runs(INIT_PID) /\ sys_log.id # 0
    /\ pc[INIT_PID] = [fn |-> "test_userlevel", at |-> "after_syscall"]
    /\ cpu.cpl = 3 /\ IFBit(cpu.rflags) = 1

\* the steps the boot thread has behind it once interrupts::init has returned
InitOrder ==
    <<"gdt.load", "set_cs", "load_tss", "IDT.load", "PIT.init", "KBD.init",
      "PIC_CHAIN.init", "enable IRQ2", "enable TIMER", "enable KBD">>

\* C20: interrupts::init loads the GDT, sets CS and loads the TSS selector,
\* loads the IDT, initialises PIT and keyboard, initialises the PIC chain and
\* enables IRQ2, TIMER and KBD, in this order, and only then executes sti:
\* until it has, interrupts are off and no tick has been taken, and every
\* tick is taken with the IDT loaded and the PIC programmed.
C20_StiAfterIdtAndPic ==
    /\ [](IF boot_pc \in {"km_entry", "km_interrupts"}
          THEN IFBit(cpu.rflags) = 0 /\ ~pic_on /\ TIMER_TICKS = 0
          ELSE obs.at_sti = InitOrder)
    /\ [][TIMER_TICKS' # TIMER_TICKS
          => /\ pic_on
             /\ \E i, j \in 1..Len(obs.at_sti) :
                  obs.at_sti[i] = "IDT.load" /\ obs.at_sti[j] = "enable TIMER"]_vars

\* interrupts::init has returned, interrupts are on, and a tick was taken
C20_TickAfterInit ==
    /\ boot_pc = "km_loop" /\ halt = "none" /\ CURRENT_ID = 0
    /\ IFBit(cpu.rflags) = 1 /\ pic_on /\ TIMER_TICKS = 1

\* C21: alloc_kernel_task or alloc_task called with next_id >= MAX_TASK
\* panics before it modifies anything: the task map, next_id and the stacks
\* are as they were, a call changes the list only when next_id < MAX_TASK,
\* and so the list never holds more than MAX_TASK - 1 tasks.
C21_FullListPanicsUnchanged ==
    /\ [][(halt' = "panic: task id exceeds maximum boundary" /\ halt = "none")
          => /\ tl.next_id >= MAX_TASK
             /\ UNCHANGED <<tl, kstack, alloc_log>>]_vars
    /\ [][tl' # tl => (tl.next_id < MAX_TASK /\ halt' = "none")]_vars
    /\ [](/\ Cardinality(DOMAIN tl.tasks) <= MAX_TASK - 1
          /\ DOMAIN kstack = DOMAIN tl.tasks)

\* a call on a list that holds MAX_TASK - 1 tasks has panicked
C21_PanickedOnFullList ==
    /\ halt = "panic: task id exceeds maximum boundary"
    /\ tl.next_id = MAX_TASK
    /\ Cardinality(DOMAIN tl.tasks) = MAX_TASK - 1

(***************************************************************************)
(* sched() on task lists of any length up to task::init's: one to four     *)
(* kernel threads that run idle, any of them the current one.              *)
(***************************************************************************)
SchedInit ==
    /\ \E n \in 2..(INIT_PID + 1) : \E id \in 1..(n - 1) :
         /\ tl = ListOf(n) /\ kstack = StacksOf(n)
         /\ CURRENT_ID = id /\ running = id
         /\ cpu = [OwnRegs(CpuBoot, id) EXCEPT
                     !.rsp = kstack[id].slots[2], !.rbp = kstack[id].slots[2],
                     !.rflags = kstack[id].slots[3]]
         /\ pc = [t \in Threads |->
                    IF t = id THEN EntryPc(kstack[id].slots[5])
                    ELSE IF t \in DOMAIN tl.tasks THEN StartPc ELSE NoPc]
    /\ boot_pc = "in_userspace"
    /\ oflags = 0
    /\ init_i = 0
    /\ list_lock = LockFree
    /\ task_lock = [p \in Pids |-> LockFree]
    /\ console_locked = FALSE
    /\ TIMER_TICKS = 0
    /\ TSS_rsp0 = 0
    /\ pic_on = TRUE
    /\ pic_isr = FALSE
    /\ hlts = [t \in Threads |-> 0]
    /\ irq = [t \in Threads |-> FALSE]
    /\ iframe = [t \in Threads |-> CpuBoot]
    /\ saved = [t \in Threads |-> CalleeRegs(CpuBoot)]
    /\ uiter = 0
    /\ sw_task = [task |-> 0, rax |-> 0, id |-> 0]
    /\ sys_log = [id |-> 0, rax |-> 0]
    /\ halt = "none"
    /\ since = [p \in Pids |-> 0]
    /\ obs = [preempted |-> FALSE, skipped |-> 0,
              entry |-> [rip |-> "none", rax |-> 0, rdi |-> 0, rsi |-> 0,
                         rdx |-> 0, r8 |-> 0, r9 |-> 0, r10 |-> 0, rsp |-> 0],
              sysif |-> [sysctx |-> 0, rsp |-> 0, ret |-> 0],
              at_sti |-> BeforeSti]
    /\ alloc_log = <<>>
    /\ count = [t \in Threads |-> 0]
    /\ sched_held = [t \in Threads |-> {}]

SchedNext == TimerTick \/ (\E t \in Threads : StartTask(t) \/ IrqReturn(t))

SchedSpec == SchedInit /\ [][SchedNext]_vars

\* C22: sched() panics with 'id should not be equal to nid' exactly when the
\* successor of the current id is that id, which for 1 <= id < next_id is the
\* case of a single allocated task (next_id = 2, CURRENT_ID = 1): a tick
\* taken there panics, and with two or more tasks the assertion never fires.
C22_PanicIffSingleTask ==
    /\ \A n \in 2..MAX_TASK : \A id \in 1..(n - 1) :
          (SchedNid(id, n) = id) <=> (n = 2 /\ id = 1)
    /\ [](halt = "panic: sched: id should not be equal to nid"
          => tl.next_id = 2 /\ CURRENT_ID = 1)
    /\ [][(TIMER_TICKS' # TIMER_TICKS /\ tl.next_id = 2 /\ CURRENT_ID = 1)
          => halt' = "panic: sched: id should not be equal to nid"]_vars

\* the tick of a single task has panicked
C22_SingleTaskPanicked ==
    /\ halt = "panic: sched: id should not be equal to nid"
    /\ DOMAIN tl.tasks = {1} /\ running = 1

\* C23: a kernel thread built by alloc_kernel_task(name, entry_rip) has
\* ctx.rsp at slot -6 below its TLS record (tlsbase - 48), with &start_task
\* there and entry_rip, kernel CS, rflags 0x202, tlsbase and kernel DS above
\* it; its first dispatch starts from that slot and leaves the thread at its
\* entry point in ring 0 with RSP = tlsbase and interrupts on.
C23_FirstDispatchStartsThread ==
    /\ \A p \in 1..(MAX_TASK - 1) :
          /\ KernelTask(p, "kthread").ctx.rsp = StackTop(p) - TLS_SIZE - 48
          /\ KernelStack(p, "idle").slots
               = <<"KERN_DS", StackTop(p) - TLS_SIZE, 514, "KERN_CS", "idle",
                   "start_task">>
    /\ [][\A t \in Pids :
            (pc[t] = StartPc /\ running = t /\ pc'[t] # pc[t])
            => /\ cpu.rsp = StackTop(t) - TLS_SIZE - 48
               /\ pc'[t] = EntryPc(InitRips[t])
               /\ cpu'.cpl = 0 /\ cpu'.rsp = StackTop(t) - TLS_SIZE
               /\ cpu'.rflags = 514 /\ IFBit(cpu'.rflags) = 1
               /\ halt' = "none"]_vars
    /\ [](halt # "fault: first dispatch off the start frame")

\* test_thread2 has been dispatched for the first time and is at its entry
C23_ThreadStarted ==
    /\ Tasking /\ Runs(3) /\ pc[3] = EntryPc("test_thread2")
    /\ cpu.rsp = StackTop(3) - TLS_SIZE /\ cpu.cpl = 0

\* C24: after any sequence of alloc_kernel_task / alloc_task calls the task
\* table is dense: its keys are exactly 1 .. next_id - 1 and the task under
\* key k has pid k, so that for every current id in that range sched()'s
\* lookups of id and of its successor find a task with the pid looked up.
C24_TaskTableDense ==
    /\ DOMAIN tl.tasks = 1..(tl.next_id - 1)
    /\ \A k \in DOMAIN tl.tasks : tl.tasks[k].pid = k
    /\ \A id \in 1..(tl.next_id - 1) :
         LET nid == SchedNid(id, tl.next_id)
         IN  /\ id \in DOMAIN tl.tasks /\ nid \in DOMAIN tl.tasks
             /\ tl.tasks[id].pid = id /\ tl.tasks[nid].pid = nid

\* three calls, a user task's among them, have extended a list
C24_ListExtended ==
    /\ halt = "none" /\ Len(alloc_log) = MaxAllocCalls
    /\ \E k \in DOMAIN tl.tasks : tl.tasks[k].ppid = 1
    /\ \E k \in DOMAIN tl.tasks : k > MaxAllocCalls /\ tl.tasks[k].ppid = 0

\* C25: the try_read of the current task's lock in sched() never fails: a
\* task's write lock is held only with interrupts off (in syscall_entry's
\* store of sysctx and in init's store of CURRENT_ID), so that in no state in
\* which a timer tick can be taken is a task write-locked.
C25_CurrentLockNeverFails ==
    /\ halt # "panic: sched: current lock failed"
    /\ \A p \in Pids : ~task_lock[p].writer
    /\ obs.sysif.sysctx = 0
    /\ boot_pc = "init_store" => IFBit(cpu.rflags) = 0

\* the user task was switched away from right after syscall_entry had stored
\* sysctx under the write lock and enabled interrupts; sched() read its lock
C25_PreemptedAfterEntry ==
    /\ Tasking /\ irq[INIT_PID] /\ running # INIT_PID
    /\ pc[INIT_PID] = [fn |-> "sys_write", at |-> "enter"]
    /\ tl.tasks[INIT_PID].sysctx.rax = SYS_WRITE_NR

\* C26: the timer path never spins on the task-list lock: the list is
\* write-locked only while CURRENT_ID is 0, where sched() returns before
\* TaskList::get(), or with interrupts off, and the read guard a preempted
\* sys_write holds does not keep sched() from reading the list.
C26_ListLockNeverBlocksSched ==
    /\ [](halt # "spin: task list")
    /\ [](list_lock.writer => (CURRENT_ID = 0 \/ IFBit(cpu.rflags) = 0))
    /\ [][(TIMER_TICKS' # TIMER_TICKS /\ CURRENT_ID # 0) => ~list_lock.writer]_vars

\* the user task was switched away from while sys_write held the list for
\* reading, before it had taken its task's lock
C26_PreemptedListReader ==
    /\ Tasking /\ irq[INIT_PID] /\ running # INIT_PID
    /\ pc[INIT_PID] = [fn |-> "sys_write", at |-> "list"]
    /\ list_lock.readers = 1 /\ ~list_lock.writer

\* C27: the TLS record at the top of every task's kernel stack keeps the
\* values written when the task was created: kern_rsp = tlsbase, and user_rsp
\* 0 for a kernel thread and the top of the user stack for a user task.
C27_TlsRecordKept ==
    \A p \in DOMAIN kstack :
        /\ kstack[p].kern_rsp = StackTop(p) - TLS_SIZE
        /\ kstack[p].user_rsp = IF tl.tasks[p].ppid = 0 THEN 0 ELSE USER_STACK_TOP

=============================================================================
